---- MODULE Spec2Model ----
(***************************************************************************)
(* A model of the eCourts scraper (cm-paras/escr-scraper):                 *)
(*   - get_all_dates_in_year / date_gap    (src/src/utils.py)              *)
(*   - divide_data                         (src/main.py)                   *)
(*   - main(): the checkpointed YEAR/WINDOW/PAGE/BATCH traversal           *)
(*                                         (src/main.py)                   *)
(*   - batch_process_judgments             (src/src/parser.py)             *)
(*   - ECourtsScraper.search_cases, verify (src/src/api.py)                *)
(* The specifications share the module: SpecPlan applies the window        *)
(* planner to bounded inputs, SpecSplit runs divide_data one loop          *)
(* iteration per step, SpecBatch runs batch_process_judgments one item per *)
(* step, Spec runs main() with abrupt termination and re-invocation,       *)
(* SpecLive runs main() as a process that always takes its next step,      *)
(* SpecSearch runs one search_cases call of main() attempt by attempt.     *)
(***************************************************************************)
EXTENDS Integers, Sequences, FiniteSets, TLC

VARIABLES plan, split, env, disk, proc, hist, job, call

vars == <<plan, split, env, disk, proc, hist, job, call>>

(***************************************************************************)
(* Bounds of the model.                                                    *)
(***************************************************************************)
\* SpecPlan: counts 0..MaxPlanCount and the counts 53800 \div g, g in 1..MaxPlanGap
MaxPlanCount == 400
MaxPlanGap == 150
\* SpecPlan: counts k * 53800 + {-1, 0, 1} for k in 1..MaxDenseFactor
MaxDenseFactor == 2
\* SpecPlan: negative counts -MaxNegCount..-1 (divide_data can produce them)
MaxNegCount == 2
\* SpecSplit: maps over the first 1..MaxYears years from BaseYear, counts 0..MaxCount
MaxYears == 3
MaxCount == 3
MaxN == 4
BaseYear == 2020
\* Spec: shards 1..MaxServers; the Source answers with at most MaxPages pages
\* a window and MaxBatches batches a page; at most MaxRuns invocations of
\* main(), MaxCrashes abrupt terminations and MaxFaults failed calls
MaxServers == 3
MaxPages == 2
MaxBatches == 2
MaxRuns == 2
MaxCrashes == 1
MaxFaults == 1
\* SpecBatch: batches of at most MaxBatchLen items
MaxBatchLen == 3

----------------------------------------------------------------------------
(***************************************************************************)
(* Calendar: datetime(year, 1, 1) + timedelta(days) and strftime.          *)
(* A datetime inside one year is its ordinal day 1..DaysInYear(year); the  *)
(* text strftime("%Y-%m-%d") prints is the triple <<year, month, day>>.    *)
(***************************************************************************)
IsLeap(year) == (year % 4 = 0) /\ ((year % 100 # 0) \/ (year % 400 = 0))

DaysInMonth(year, month) ==
    IF month = 2 THEN (IF IsLeap(year) THEN 29 ELSE 28)
    ELSE IF month \in {4, 6, 9, 11} THEN 30 ELSE 31

DaysInYear(year) == IF IsLeap(year) THEN 366 ELSE 365

RECURSIVE DateOf(_, _, _)
\* the calendar date ordinal - 1 days after the first of month of year
DateOf(year, month, ordinal) ==
    IF ordinal <= DaysInMonth(year, month) THEN <<year, month, ordinal>>
    ELSE IF month < 12
         THEN DateOf(year, month + 1, ordinal - DaysInMonth(year, month))
         ELSE DateOf(year + 1, 1, ordinal - DaysInMonth(year, month))

\* strftime("%Y-%m-%d") of datetime(year, 1, 1) + timedelta(days=ordinal - 1)
Strftime(year, ordinal) == DateOf(year, 1, ordinal)

----------------------------------------------------------------------------
(***************************************************************************)
(* WindowPlanner: src/src/utils.py                                         *)
(***************************************************************************)
\* floor(a / b) for b # 0, as math.floor of a true division
FloorDiv(a, b) ==
    IF b > 0 THEN (IF a >= 0 THEN a \div b ELSE -(((-a) + b - 1) \div b))
    ELSE (IF a >= 0 THEN -((a + (-b) - 1) \div (-b)) ELSE (-a) \div (-b))

\* The swapped clamps: a non-positive gap collapses to the whole year.
DateGapSwapped(total_count) ==
    LET effective_judgement_days == 365 - (2 * 4 * 12)
        gap_days == FloorDiv(200 * effective_judgement_days, total_count)
    IN IF gap_days <= 0 THEN -1
       ELSE IF gap_days > 365 THEN 1
       ELSE gap_days

\* The count taken for the average of a day: 200 / total_count.
DateGapPerCount(total_count) ==
    LET gap_days == FloorDiv(200, total_count)
    IN IF gap_days <= 0 THEN 1
       ELSE IF gap_days > 365 THEN -1
       ELSE gap_days

\* date_gap(total_count), total_count # 0 (0 raises ZeroDivisionError).
\* 200 / (total_count / 269) in binary doubles has the floor of
\* 53800 / total_count for every total_count in 1..300000 (enumerated), and
\* is below 1 beyond.
DateGap(total_count) ==
    LET effective_judgement_days == 365 - (2 * 4 * 12)
        gap_days == FloorDiv(200 * effective_judgement_days, total_count)
    IN IF gap_days <= 0 THEN 1
       ELSE IF gap_days > 365 THEN -1
       ELSE gap_days

\* The clip at the year boundary left out.
RangeEndUnclipped(current_start, add_variable, end_date) ==
    current_start + (add_variable - 1)

\* timedelta(days=add_variable) for timedelta(days=add_variable - 1).
RangeEndOneDayMore(current_start, add_variable, end_date) ==
    LET range_end == current_start + add_variable
    IN IF range_end > end_date THEN end_date ELSE range_end

\* range_end = current_start + timedelta(days=add_variable - 1), clipped
RangeEnd(current_start, add_variable, end_date) ==
    LET range_end == current_start + (add_variable - 1)
    IN IF range_end > end_date THEN end_date ELSE range_end

\* lines 25-41: one iteration of the while loop, from current_start
DateRangesIteration(year, add_variable, current_start, date_ranges) ==
    LET end_date == DaysInYear(year)
        range_end == RangeEnd(current_start, add_variable, end_date)
    IN [date_ranges |-> Append(date_ranges, <<Strftime(year, current_start),
                                              Strftime(year, range_end)>>),
        current_start |-> range_end + 1]

RECURSIVE DateRangesLoop(_, _, _, _)
\* the while loop of get_all_dates_in_year
DateRangesLoop(year, add_variable, current_start, date_ranges) ==
    IF ~(current_start <= DaysInYear(year)) THEN date_ranges
    ELSE LET it == DateRangesIteration(year, add_variable, current_start, date_ranges)
         IN DateRangesLoop(year, add_variable, it.current_start, it.date_ranges)

\* get_all_dates_in_year(year, total_count), total_count # 0
GetAllDatesInYear(year, total_count) ==
    LET add_variable == DateGap(total_count) IN
    IF add_variable = -1
    THEN << <<Strftime(year, 1), Strftime(year, DaysInYear(year))>> >>
    ELSE DateRangesLoop(year, add_variable, 1, <<>>)

----------------------------------------------------------------------------
(***************************************************************************)
(* ShardSplitter: divide_data, src/main.py                                 *)
(*                                                                         *)
(* target_count = total_count / n is a float and the running count is      *)
(* rounded to 6 decimals.  The model is exact: a quantity x is the integer *)
(* x * n * 10^6 ("ticks"), so that target_count and every 6-decimal number *)
(* are whole numbers of ticks.  The exact values and the binary doubles    *)
(* give the same shard maps on every input of the model (enumerated), the  *)
(* quantities compared being either equal or at least 1/(n * 10^6) apart.  *)
(***************************************************************************)
\* round(x, 6): the grid of 10^-6
MICRO == 1000000
\* abs(current_count - target_count) < 1e-6, in units of 10^-6
EPS_MICRO == 1

Unit(n) == n * MICRO

\* int(x): truncation toward zero of x ticks
IntOf(x, n) == IF x >= 0 THEN x \div Unit(n) ELSE -((-x) \div Unit(n))

\* round(x, 6) of x ticks: the nearest multiple of n ticks (a tie, which
\* needs 128 | n, goes to the even multiple)
Round6(x, n) ==
    LET a == FloorDiv(x, n)
        b == x - a * n
    IN IF 2 * b < n THEN a * n
       ELSE IF 2 * b > n THEN (a + 1) * n
       ELSE IF a % 2 = 0 THEN a * n ELSE (a + 1) * n

EmptyMap == [y \in {} |-> 0]

RECURSIVE SortedYears(_)
\* the keys of sorted(data.items())
SortedYears(S) ==
    IF S = {} THEN <<>>
    ELSE LET m == CHOOSE y \in S : \A z \in S : y <= z
         IN <<m>> \o SortedYears(S \ {m})

RECURSIVE SumOver(_, _)
SumOver(f, S) ==
    IF S = {} THEN 0
    ELSE LET y == CHOOSE z \in S : TRUE IN f[y] + SumOver(f, S \ {y})

\* total_count / n, in ticks
TargetCount(data, n) == SumOver(data, DOMAIN data) * MICRO

\* result[part_index][year] = value (part_index counts from 0)
Put(result, part_index, year, value) ==
    [result EXCEPT ![part_index + 1] = (year :> value) @@ @]

\* current_count + count > target_count
Exceeds(current_count, count, n, target_count) ==
    current_count + count * Unit(n) > target_count

\* add_to_current = round(target_count - current_count, 6)
AddToCurrent(target_count, current_count, n) ==
    Round6(target_count - current_count, n)

\* add_to_next = round(count - add_to_current, 6)
AddToNext(count, add_to_current, n) ==
    Round6(count * Unit(n) - add_to_current, n)

\* the two tests that end an iteration: the part is full; no part is left
EndOfIteration(st, n, target_count) ==
    LET full == (IF st.current_count >= target_count
                 THEN st.current_count - target_count
                 ELSE target_count - st.current_count) < EPS_MICRO * n
        part_index == IF full THEN st.part_index + 1 ELSE st.part_index
    IN [result |-> st.result,
        part_index |-> part_index,
        current_count |-> IF full THEN 0 ELSE st.current_count,
        broke |-> part_index >= n]

\* one iteration of "for year, count in sorted_data"
DivideIteration(st, year, count, n, target_count) ==
    IF Exceeds(st.current_count, count, n, target_count)
    THEN LET add_to_current == AddToCurrent(target_count, st.current_count, n)
             r1 == Put(st.result, st.part_index, year, IntOf(add_to_current, n))
             part_index == st.part_index + 1
         IN IF part_index >= n
            THEN [result |-> r1, part_index |-> part_index,
                  current_count |-> st.current_count, broke |-> TRUE]
            ELSE LET add_to_next == AddToNext(count, add_to_current, n)
                 IN EndOfIteration(
                        [result |-> Put(r1, part_index, year, IntOf(add_to_next, n)),
                         part_index |-> part_index,
                         current_count |-> add_to_next], n, target_count)
    ELSE EndOfIteration(
             [result |-> Put(st.result, st.part_index, year, count),
              part_index |-> st.part_index,
              current_count |-> st.current_count + count * Unit(n)], n, target_count)

\* "If there are any remaining data points, add them to the last part"
DivideRemainder(data, n, result, part_index) ==
    LET sorted_data == SortedYears(DOMAIN data) IN
    IF part_index < n /\ sorted_data[1] \notin DOMAIN result[n]
    THEN LET from == Cardinality(DOMAIN result[1])
             remaining == {sorted_data[k] : k \in (from + 1)..Len(sorted_data)}
         IN [result EXCEPT ![n] = [y \in remaining |-> data[y]] @@ @]
    ELSE result

DivideStart(n) ==
    [result |-> [k \in 1..n |-> EmptyMap], part_index |-> 0,
     current_count |-> 0, broke |-> FALSE]

RECURSIVE DivideLoop(_, _, _, _)
DivideLoop(data, n, i, st) ==
    LET sorted_data == SortedYears(DOMAIN data) IN
    IF st.broke \/ i >= Len(sorted_data) THEN st
    ELSE DivideLoop(data, n, i + 1,
                    DivideIteration(st, sorted_data[i + 1], data[sorted_data[i + 1]],
                                    n, TargetCount(data, n)))

\* divide_data(data, n) for a non-empty data and n >= 1.  The counts are
\* returned as str(count) and read back by main() with int(): the same
\* integers.
DivideData(data, n) ==
    LET st == DivideLoop(data, n, 0, DivideStart(n))
    IN DivideRemainder(data, n, st.result, st.part_index)

----------------------------------------------------------------------------
(***************************************************************************)
(* The parts of the state a specification does not use stay as they are    *)
(* here.                                                                   *)
(***************************************************************************)
PlanIdle ==
    [pc |-> "off", year |-> 0, count |-> 0, add_variable |-> 0,
     current_start |-> 0, date_ranges |-> <<>>]

SplitIdle ==
    [pc |-> "off", data |-> EmptyMap, n |-> 0, i |-> 0, result |-> <<>>,
     part_index |-> 0, current_count |-> 0,
     last |-> [exceeded |-> FALSE, year |-> 0, part |-> 0, before |-> 0]]

\* the state main() starts from when no checkpoint file exists (lines 282-291;
\* state_code and last_updated are left out: nothing reads them)
FreshState ==
    [current_year_index |-> 0, current_date_index |-> 0, current_request |-> 0,
     current_batch |-> 0, completed |-> FALSE, years |-> EmptyMap]

EnvIdle ==
    [years |-> EmptyMap, server_count |-> 0, total_records |-> 0, items |-> 0,
     azure_ok |-> TRUE, vision_ok |-> TRUE]

NoFile == [exists |-> FALSE, state |-> FreshState]

ProcIdle ==
    [pc |-> "idle", server_no |-> 0, state |-> FreshState,
     current_year_index |-> 0, years |-> EmptyMap, years_list |-> <<>>,
     year_idx |-> 0, date_ranges |-> <<>>, date_idx |-> 0,
     total_requests |-> 0, req_no |-> 0, batch_count |-> 0, batch_idx |-> 0,
     app_token |-> 0]

JobIdle ==
    [pc |-> "off", judgments |-> <<>>, processor_func |-> "", i |-> 0,
     results |-> <<>>]

\* no search_cases call in hand
CallIdle ==
    [pc |-> "off", verified |-> FALSE, attempt |-> 0, slept |-> 0,
     posts |-> 0, caught |-> "", result |-> ""]

\* no checkpoint written yet
NoSave == [run |-> 0, server_no |-> 0, pos |-> <<0, 0, 0, 0>>]

HistIdle ==
    [runs |-> 0, crashes |-> 0, faults |-> 0, servers |-> <<>>, ends |-> <<>>,
     log |-> <<>>, starts |-> <<>>, sessions |-> {}, sink |-> <<>>,
     prev |-> NoSave, last |-> NoSave]

----------------------------------------------------------------------------
(***************************************************************************)
(* SpecPlan: get_all_dates_in_year applied to bounded inputs.              *)
(***************************************************************************)
\* the count from which count / 269 >= 200
DenseCount == 200 * (365 - (2 * 4 * 12))

PlanYears == {1900, 2000, 2024} \cup (BaseYear..(BaseYear + MaxYears))

PlanCounts ==
    ((-MaxNegCount)..MaxPlanCount)
    \cup {DenseCount \div g : g \in 1..MaxPlanGap}
    \cup {k * DenseCount + j : k \in 1..MaxDenseFactor, j \in {-1, 0, 1}}

\* lines 7-23: date_gap; the whole year as one range when it says -1
PlanCall ==
    /\ plan.pc = "call"
    /\ plan.count # 0
    /\ LET add_variable == DateGap(plan.count) IN
       plan' = IF add_variable = -1
               THEN [plan EXCEPT
                       !.pc = "done",
                       !.add_variable = add_variable,
                       !.date_ranges = << <<Strftime(plan.year, 1),
                                            Strftime(plan.year, DaysInYear(plan.year))>> >>]
               ELSE [plan EXCEPT !.pc = "loop",
                                 !.add_variable = add_variable,
                                 !.current_start = 1]
    /\ UNCHANGED <<split, env, disk, proc, hist, job, call>>

\* lines 25-43: one iteration of the while loop; the list is returned when
\* current_start has passed the end of the year
PlanStep ==
    /\ plan.pc = "loop"
    /\ plan.current_start <= DaysInYear(plan.year)
    /\ LET it == DateRangesIteration(plan.year, plan.add_variable,
                                     plan.current_start, plan.date_ranges)
       IN plan' = [plan EXCEPT
                     !.date_ranges = it.date_ranges,
                     !.current_start = it.current_start,
                     !.pc = IF it.current_start > DaysInYear(plan.year)
                            THEN "done" ELSE "loop"]
    /\ UNCHANGED <<split, env, disk, proc, hist, job, call>>

\* date_gap(0): total_count / effective_judgement_days is 0.0 and
\* 200 / 0.0 raises ZeroDivisionError
PlanRaises ==
    /\ plan.pc = "call"
    /\ plan.count = 0
    /\ plan' = [plan EXCEPT !.pc = "ZeroDivisionError"]
    /\ UNCHANGED <<split, env, disk, proc, hist, job, call>>

----------------------------------------------------------------------------
(***************************************************************************)
(* SpecSplit: divide_data, one iteration of its loop per step.             *)
(***************************************************************************)
SplitYearSets == {BaseYear..(BaseYear + k - 1) : k \in 1..MaxYears}

\* Scenario A of the specification
ScenarioA == (2020 :> 100) @@ (2021 :> 50)

SplitInputs ==
    UNION {[Y -> 0..MaxCount] : Y \in SplitYearSets} \cup {ScenarioA}

\* lines 190-230: one iteration of the loop
DivideStep ==
    /\ split.pc = "loop"
    /\ LET sorted_data == SortedYears(DOMAIN split.data)
           year == sorted_data[split.i + 1]
           count == split.data[year]
           target_count == TargetCount(split.data, split.n)
           st == DivideIteration(
                     [result |-> split.result, part_index |-> split.part_index,
                      current_count |-> split.current_count, broke |-> FALSE],
                     year, count, split.n, target_count)
       IN split' = [split EXCEPT
                      !.i = split.i + 1,
                      !.result = st.result,
                      !.part_index = st.part_index,
                      !.current_count = st.current_count,
                      !.last = [exceeded |-> Exceeds(split.current_count, count,
                                                     split.n, target_count),
                                year |-> year,
                                part |-> split.part_index,
                                before |-> split.current_count],
                      !.pc = IF st.broke \/ split.i + 1 >= Len(sorted_data)
                             THEN "remainder" ELSE "loop"]
    /\ UNCHANGED <<plan, env, disk, proc, hist, job, call>>

\* lines 232-240: the remainder step and the return
DivideReturn ==
    /\ split.pc = "remainder"
    /\ split' = [split EXCEPT
                   !.result = DivideRemainder(split.data, split.n,
                                              split.result, split.part_index),
                   !.pc = "done"]
    /\ UNCHANGED <<plan, env, disk, proc, hist, job, call>>

----------------------------------------------------------------------------
(***************************************************************************)
(* SpecBatch: batch_process_judgments (src/src/parser.py lines 275-290),   *)
(* one item of the loop per step.                                          *)
(*                                                                         *)
(* An item is a dict (the type the signature names) or a list (a row of    *)
(* aaData, what main() passes); "fails" says that handling it raises.      *)
(* processor_func is process_single_case of main(), which catches what its *)
(* body raises, or a function that lets the exception out.                 *)
(***************************************************************************)
ItemKinds == {"dict", "list"}
ProcessorFuncs == {"process_single_case", "plain"}

Judgments ==
    UNION {[1..len -> [kind : ItemKinds, fails : BOOLEAN]] : len \in 0..MaxBatchLen}

\* what the item function returns for an item it handles
CaseDetail(i, judgment) ==
    [of |-> i, kind |-> "case_detail", marker |-> "", message |-> ""]

\* main.py lines 134-136: {"_error": str(e), "_processing_failed": True}
ProcessingFailed(i, judgment) ==
    [of |-> i, kind |-> "error", marker |-> "_processing_failed",
     message |-> "_error"]

\* parser.py lines 287-288: the judgment itself, with "_processing_error"
ProcessingError(i, judgment) ==
    [of |-> i, kind |-> judgment.kind, marker |-> "_processing_error",
     message |-> "_processing_error"]

\* processor_func(judgment): what it returns, or that it raises
ProcessorFunc(processor_func, i, judgment) ==
    IF ~judgment.fails
    THEN [raises |-> FALSE, value |-> CaseDetail(i, judgment)]
    ELSE IF processor_func = "process_single_case"
    THEN [raises |-> FALSE, value |-> ProcessingFailed(i, judgment)]
    ELSE [raises |-> TRUE, value |-> CaseDetail(i, judgment)]

\* lines 280-288: one iteration.  In the handler judgment["_processing_error"]
\* = str(e) is an item assignment with a str key: on a list it raises
\* TypeError, which nothing in batch_process_judgments catches.
BatchStep ==
    /\ job.pc = "loop"
    /\ job.i < Len(job.judgments)
    /\ LET i == job.i + 1
           judgment == job.judgments[i]
           out == ProcessorFunc(job.processor_func, i, judgment)
       IN job' = IF ~out.raises
                 THEN [job EXCEPT !.i = i, !.results = Append(@, out.value)]
                 ELSE IF judgment.kind = "dict"
                 THEN [job EXCEPT !.i = i,
                                  !.results = Append(@, ProcessingError(i, judgment))]
                 ELSE [job EXCEPT !.pc = "TypeError"]
    /\ UNCHANGED <<plan, split, env, disk, proc, hist, call>>

\* line 290: return results
BatchReturn ==
    /\ job.pc = "loop"
    /\ ~(job.i < Len(job.judgments))
    /\ job' = [job EXCEPT !.pc = "done"]
    /\ UNCHANGED <<plan, split, env, disk, proc, hist, call>>

----------------------------------------------------------------------------
(***************************************************************************)
(* Spec: main(), src/main.py lines 243-467.                                *)
(*                                                                         *)
(* env   what the portal answers, the same in every run: the year          *)
(*       histogram, iTotalRecords of a window, len(aaData) of a page; the  *)
(*       --server_count every invocation is given; and whether the         *)
(*       environment holds AZURE_STORAGE_CONNECTION_STRING (azure_ok) and  *)
(*       COMPUTER_VISION_CLIENT_SUBSCRIPTION_KEY / _ENDPOINT (vision_ok)   *)
(* disk  state_files/scraper_state_<state_code>_<server_no>.json           *)
(* proc  the running process: its place in main() (pc), the state dict in  *)
(*       memory and the locals of the loops                                *)
(* hist  what happened so far: invocations, abrupt terminations, failed    *)
(*       calls, the --server_no of each invocation and how it ended, the   *)
(*       log of the searches issued and batches processed; what load_state *)
(*       gave each invocation (starts), the invocations that opened a      *)
(*       session with the portal (sessions), the MongoClient of each       *)
(*       invocation and the times it was closed (sink), and the positions  *)
(*       the last two save_state calls wrote (prev, last)                  *)
(***************************************************************************)
DISPLAY_CASE == 100
BATCH_SIZE == 10

\* math.ceil(a / b), a >= 0, b > 0
CeilDiv(a, b) == (a + b - 1) \div b

ServerNos == 1..(MaxServers + 1)

\* What the year histogram of the portal can be.
TraversalData ==
    {ScenarioA,
     (2020 :> 200) @@ (2021 :> 100),
     (2020 :> 0) @@ (2021 :> 10),
     (2019 :> 10) @@ (2020 :> 300) @@ (2021 :> 160)}

TotalRecordsSet == {0} \cup {DISPLAY_CASE * (k - 1) + 1 : k \in 1..MaxPages}
ItemsSet == {0} \cup {BATCH_SIZE * (k - 1) + 1 : k \in 1..MaxBatches}

\* sorted(years.keys(), reverse=True)
RECURSIVE SortedYearsDesc(_)
SortedYearsDesc(S) ==
    IF S = {} THEN <<>>
    ELSE LET m == CHOOSE y \in S : \A z \in S : y >= z
         IN <<m>> \o SortedYearsDesc(S \ {m})

\* save_state(state, server_no): the whole dict overwrites the file
SaveState(d, state, server_no) ==
    [d EXCEPT ![server_no] = [exists |-> TRUE, state |-> state]]

\* an entry of the log
Event(kind, ok) ==
    [kind |-> kind, ok |-> ok, run |-> hist.runs, server_no |-> proc.server_no,
     year |-> IF proc.year_idx < Len(proc.years_list)
              THEN proc.years_list[proc.year_idx + 1] ELSE 0,
     window |-> IF proc.date_idx < Len(proc.date_ranges)
                THEN proc.date_ranges[proc.date_idx + 1] ELSE <<>>,
     year_idx |-> proc.year_idx, date_idx |-> proc.date_idx,
     req_no |-> IF kind = "probe" THEN -1 ELSE proc.req_no,
     batch_idx |-> IF kind = "batch" THEN proc.batch_idx ELSE -1]

Logged(e) == [hist EXCEPT !.log = Append(@, e)]

\* the process is gone: the "finally" of main() has run, or the process
\* was killed
Exit == proc' = ProcIdle

CanFail == hist.faults < MaxFaults
Failed(h) == [h EXCEPT !.faults = @ + 1]

\* The close at the end of the "try" block, not in "finally".
EndedWithoutFinally(h, how) ==
    [h EXCEPT !.ends = Append(@, how),
              !.sink[h.runs].closed = @ + (IF how = "completed" THEN 1 ELSE 0)]

\* how an invocation that entered the "try" of main() ended: "completed",
\* "returned" (the server number is not one of the parts), "no years" (the
\* portal gave no year data), "raised" (the outer handler logged an
\* exception), "killed".  All but the last leave through "finally" (lines
\* 465-467): mongo_client.close().
Ended(h, how) ==
    [h EXCEPT !.ends = Append(@, how),
              !.sink[h.runs].closed = @ + (IF how = "killed" THEN 0 ELSE 1)]

\* the position a checkpoint holds
PosOf(state) ==
    <<state.current_year_index, state.current_date_index,
      state.current_request, state.current_batch>>

\* save_state has written state to the file of server_no
Persisted(h, state, server_no) ==
    [h EXCEPT !.prev = h.last,
              !.last = [run |-> h.runs, server_no |-> server_no,
                        pos |-> PosOf(state)]]

\* lines 252-257: AZURE_STORAGE_CONNECTION_STRING is not set; ValueError
\* is raised before the "try" of main(), nothing catches it
StartFails ==
    /\ proc.pc = "idle"
    /\ hist.runs < MaxRuns
    /\ ~env.azure_ok
    /\ \E server_no \in 1..(env.server_count + 1) :
          hist' = [hist EXCEPT
                     !.runs = @ + 1,
                     !.servers = Append(@, server_no),
                     !.starts = Append(@, [read |-> FALSE, file |-> NoFile]),
                     !.sink = Append(@, [acquired |-> FALSE, closed |-> 0]),
                     !.ends = Append(@, "uncaught")]
    /\ UNCHANGED <<plan, split, env, disk, proc, job, call>>

\* lines 259-295: the clients of the Sink, then load_state, or a new state
\* saved at once
LoadState ==
    /\ proc.pc = "idle"
    /\ hist.runs < MaxRuns
    /\ env.azure_ok
    /\ \E server_no \in 1..(env.server_count + 1) :
          LET loaded == disk[server_no]
              state == IF loaded.exists THEN loaded.state ELSE FreshState
              started == [hist EXCEPT
                            !.runs = @ + 1,
                            !.servers = Append(@, server_no),
                            !.starts = Append(@, [read |-> TRUE, file |-> loaded]),
                            !.sink = Append(@, [acquired |-> TRUE, closed |-> 0])]
          IN /\ hist' = IF loaded.exists THEN started
                        ELSE Persisted(started, state, server_no)
             /\ proc' = [ProcIdle EXCEPT !.pc = "prepare",
                                         !.server_no = server_no,
                                         !.state = state]
             /\ disk' = IF loaded.exists THEN disk
                        ELSE SaveState(disk, state, server_no)
    /\ UNCHANGED <<plan, split, env, job, call>>

\* lines 297-341: the session, the year histogram (fetched and saved when
\* the state has none), divide_data and this server's part.  With a
\* server_count of 0 divide_data raises ZeroDivisionError at total_count / n
\* (line 178), which the outer handler logs: main() ends.
PrepareYears ==
    /\ proc.pc = "prepare"
    /\ env.vision_ok
    /\ LET fetch == proc.state.years = EmptyMap
           state == IF fetch THEN [proc.state EXCEPT !.years = env.years]
                    ELSE proc.state
           session == [hist EXCEPT !.sessions = @ \cup {hist.runs}]
           saved == IF fetch THEN Persisted(session, state, proc.server_no)
                    ELSE session
       IN /\ disk' = IF fetch THEN SaveState(disk, state, proc.server_no) ELSE disk
          /\ IF env.server_count = 0
             THEN Exit /\ hist' = Ended(saved, "raised")
             ELSE LET divided_years == DivideData(state.years, env.server_count) IN
                  IF 1 <= proc.server_no /\ proc.server_no <= Len(divided_years)
                  THEN LET years == divided_years[proc.server_no]
                       IN /\ proc' = [proc EXCEPT
                                        !.pc = "year",
                                        !.state = state,
                                        !.years = years,
                                        !.years_list = SortedYearsDesc(DOMAIN years),
                                        !.current_year_index = state.current_year_index,
                                        !.year_idx = state.current_year_index]
                          /\ hist' = saved
                  ELSE Exit /\ hist' = Ended(saved, "returned")
    /\ UNCHANGED <<plan, split, env, job, call>>

\* line 296: ECourtsScraper() finds COMPUTER_VISION_CLIENT_SUBSCRIPTION_KEY or
\* COMPUTER_VISION_CLIENT_ENDPOINT unset (api.py lines 115-122) and raises
\* ValueError, which the outer handler logs: main() ends
PrepareNoCredentials ==
    /\ proc.pc = "prepare"
    /\ ~env.vision_ok
    /\ Exit
    /\ hist' = Ended(hist, "raised")
    /\ UNCHANGED <<plan, split, env, disk, job, call>>

\* lines 296-299 failing: ECourtsScraper() (initialize_session) or
\* get_highcourt_year_data() raises; main() ends through "finally"
PrepareFails ==
    /\ proc.pc = "prepare"
    /\ env.vision_ok
    /\ CanFail
    /\ Exit
    /\ hist' = Ended(Failed([hist EXCEPT !.sessions = @ \cup {hist.runs}]), "raised")
    /\ UNCHANGED <<plan, split, env, disk, job, call>>

\* lines 302-307: the state has no years and the portal answers without
\* year_dtls: "return"
PrepareNoYears ==
    /\ proc.pc = "prepare"
    /\ env.vision_ok
    /\ CanFail
    /\ proc.state.years = EmptyMap
    /\ Exit
    /\ hist' = Ended(Failed([hist EXCEPT !.sessions = @ \cup {hist.runs}]), "no years")
    /\ UNCHANGED <<plan, split, env, disk, job, call>>

\* The window after the saved one taken up.
StartDateIdxSkipping ==
    IF proc.year_idx = proc.current_year_index
    THEN proc.state.current_date_index + 1
    ELSE 0

\* start_date_idx (line 362)
StartDateIdx ==
    IF proc.year_idx = proc.current_year_index
    THEN proc.state.current_date_index ELSE 0

\* lines 345-362: the head of the year loop, the year's index saved, its
\* windows planned.  A count of 0 raises ZeroDivisionError in date_gap, which
\* the outer handler logs: main() ends.
YearEnter ==
    /\ proc.pc = "year"
    /\ proc.year_idx < Len(proc.years_list)
    /\ LET year == proc.years_list[proc.year_idx + 1]
           year_count == proc.years[year]
           state == [proc.state EXCEPT !.current_year_index = proc.year_idx]
           saved == Persisted(hist, state, proc.server_no)
       IN /\ disk' = SaveState(disk, state, proc.server_no)
          /\ IF year_count = 0
             THEN Exit /\ hist' = Ended(saved, "raised")
             ELSE LET date_ranges_in_a_year == GetAllDatesInYear(year, year_count)
                      start_date_idx == StartDateIdx
                  IN /\ proc' = [proc EXCEPT !.pc = "window",
                                             !.state = state,
                                             !.date_ranges = date_ranges_in_a_year,
                                             !.date_idx = start_date_idx]
                     /\ hist' = saved
    /\ UNCHANGED <<plan, split, env, job, call>>

\* lines 364-372: the head of the window loop; the window's index is saved
\* with the request and batch counters reset
WindowEnter ==
    /\ proc.pc = "window"
    /\ proc.date_idx < Len(proc.date_ranges)
    /\ LET state == [proc.state EXCEPT !.current_date_index = proc.date_idx,
                                       !.current_request = 0,
                                       !.current_batch = 0]
       IN /\ disk' = SaveState(disk, state, proc.server_no)
          /\ hist' = Persisted(hist, state, proc.server_no)
          /\ proc' = [proc EXCEPT !.pc = "probe", !.state = state]
    /\ UNCHANGED <<plan, split, env, job, call>>

\* start_req (lines 391-395)
StartReq ==
    IF proc.year_idx = proc.current_year_index
       /\ proc.date_idx = proc.state.current_date_index
    THEN proc.state.current_request ELSE 0

\* lines 376-395: the probe of the window answers with iTotalRecords
Probe ==
    /\ proc.pc = "probe"
    /\ proc' = [proc EXCEPT !.pc = "page",
                            !.total_requests = CeilDiv(env.total_records, DISPLAY_CASE),
                            !.req_no = StartReq]
    /\ hist' = Logged(Event("probe", TRUE))
    /\ UNCHANGED <<plan, split, env, disk, job, call>>

\* "break" for the "continue" of line 384: the windows left of the year are
\* given up.
ProbeEmptyBreaks ==
    /\ proc.pc = "probe"
    /\ CanFail
    /\ proc' = [proc EXCEPT !.pc = "window", !.date_idx = Len(proc.date_ranges)]
    /\ hist' = Failed(Logged(Event("probe", FALSE)))
    /\ UNCHANGED <<plan, split, env, disk, job, call>>

\* lines 379-384: search_cases returns None (it swallows its own errors) or
\* a reply without reportrow: "continue" with the next window
ProbeEmpty ==
    /\ proc.pc = "probe"
    /\ CanFail
    /\ proc' = [proc EXCEPT !.pc = "window", !.date_idx = @ + 1]
    /\ hist' = Failed(Logged(Event("probe", FALSE)))
    /\ UNCHANGED <<plan, split, env, disk, job, call>>

\* lines 376-377, 386: ECourtsScraper() raises (initialize_session, missing
\* credentials), verify() raises after its attempts, or iTotalRecords cannot
\* be read: nothing inside the loops catches it, main() ends
ProbeRaises ==
    /\ proc.pc = "probe"
    /\ CanFail
    /\ Exit
    /\ hist' = Ended(Failed(hist), "raised")
    /\ UNCHANGED <<plan, split, env, disk, job, call>>

\* line 397 exhausted, line 444: the next window
WindowDone ==
    /\ proc.pc = "page"
    /\ ~(proc.req_no < proc.total_requests)
    /\ proc' = [proc EXCEPT !.pc = "window", !.date_idx = @ + 1]
    /\ UNCHANGED <<plan, split, env, disk, hist, job, call>>

\* lines 397-402: the head of the request loop; the request number is saved
\* with the batch counter reset
PageEnter ==
    /\ proc.pc = "page"
    /\ proc.req_no < proc.total_requests
    /\ LET state == [proc.state EXCEPT !.current_request = proc.req_no,
                                       !.current_batch = 0]
       IN /\ disk' = SaveState(disk, state, proc.server_no)
          /\ hist' = Persisted(hist, state, proc.server_no)
          /\ proc' = [proc EXCEPT !.pc = "fetch", !.state = state]
    /\ UNCHANGED <<plan, split, env, job, call>>

\* start_batch (line 424)
StartBatch ==
    IF proc.req_no = proc.state.current_request
    THEN proc.state.current_batch ELSE 0

\* lines 406-425: the page is fetched; its rows make batch_count batches
Fetch ==
    /\ proc.pc = "fetch"
    /\ proc' = [proc EXCEPT !.pc = "batch",
                            !.batch_count = (env.items + BATCH_SIZE - 1) \div BATCH_SIZE,
                            !.batch_idx = StartBatch]
    /\ hist' = Logged(Event("page", TRUE))
    /\ UNCHANGED <<plan, split, env, disk, job, call>>

\* lines 413-415: no reply or no reportrow: "continue" with the next request
FetchEmpty ==
    /\ proc.pc = "fetch"
    /\ CanFail
    /\ proc' = [proc EXCEPT !.pc = "page", !.req_no = @ + 1]
    /\ hist' = Failed(Logged(Event("page", FALSE)))
    /\ UNCHANGED <<plan, split, env, disk, job, call>>

\* lines 417-418: aaData missing (KeyError) or null (len(None) raises
\* TypeError before line 420 tests it): main() ends
FetchRaises ==
    /\ proc.pc = "fetch"
    /\ CanFail
    /\ Exit
    /\ hist' = Ended(Failed(Logged(Event("page", FALSE))), "raised")
    /\ UNCHANGED <<plan, split, env, disk, job, call>>

\* line 427 exhausted, line 442: the next request
PageDone ==
    /\ proc.pc = "batch"
    /\ ~(proc.batch_idx < proc.batch_count)
    /\ proc' = [proc EXCEPT !.pc = "page", !.req_no = @ + 1]
    /\ UNCHANGED <<plan, split, env, disk, hist, job, call>>

\* The batch index set in memory, the save_state of line 431 left out.
BatchEnterBuffered ==
    /\ proc.pc = "batch"
    /\ proc.batch_idx < proc.batch_count
    /\ proc' = [proc EXCEPT !.pc = "process",
                            !.state = [proc.state EXCEPT !.current_batch = proc.batch_idx]]
    /\ UNCHANGED <<plan, split, env, disk, hist, job, call>>

\* lines 427-431: the head of the batch loop; the batch index is saved
BatchEnter ==
    /\ proc.pc = "batch"
    /\ proc.batch_idx < proc.batch_count
    /\ LET state == [proc.state EXCEPT !.current_batch = proc.batch_idx]
       IN /\ disk' = SaveState(disk, state, proc.server_no)
          /\ hist' = Persisted(hist, state, proc.server_no)
          /\ proc' = [proc EXCEPT !.pc = "process", !.state = state]
    /\ UNCHANGED <<plan, split, env, job, call>>

\* lines 433-440: process_case_batch returns
ProcessBatch ==
    /\ proc.pc = "process"
    /\ proc' = [proc EXCEPT !.pc = "batch", !.batch_idx = @ + 1]
    /\ hist' = Logged(Event("batch", TRUE))
    /\ UNCHANGED <<plan, split, env, disk, job, call>>

\* The error of insert_many not caught: it leaves process_case_batch and
\* main() ends.
SinkWriteRaises ==
    /\ proc.pc = "process"
    /\ CanFail
    /\ Exit
    /\ hist' = Ended(Failed([hist EXCEPT !.log = @ \o <<Event("batch", TRUE),
                                                        Event("write", FALSE)>>]),
                     "raised")
    /\ UNCHANGED <<plan, split, env, disk, job, call>>

\* main.py lines 138-149, 440: the batch is processed, insert_many fails
\* with BulkWriteError or ServerSelectionTimeoutError; process_case_batch
\* logs the error and returns
SinkWriteFails ==
    /\ proc.pc = "process"
    /\ CanFail
    /\ proc' = [proc EXCEPT !.pc = "batch", !.batch_idx = @ + 1]
    /\ hist' = Failed([hist EXCEPT !.log = @ \o <<Event("batch", TRUE),
                                                  Event("write", FALSE)>>])
    /\ UNCHANGED <<plan, split, env, disk, job, call>>

\* api.py lines 512-524, under process_single_case (main.py line 121): the
\* portal answers a download with "filename", a CAPTCHA is asked for.  The
\* downloads of the items of a batch are one step here.
CaptchaAsked ==
    /\ proc.pc = "process"
    /\ proc' = [proc EXCEPT !.pc = "captcha"]
    /\ UNCHANGED <<plan, split, env, disk, hist, job, call>>

\* api.py lines 524-551: "while True": the answer to the solved CAPTCHA says
\* "invalid", the loop goes round with the app_token of the answer
\* (update_app_token); nothing counts the attempts
CaptchaInvalid ==
    /\ proc.pc = "captcha"
    /\ proc' = [proc EXCEPT !.app_token = 1 - @]
    /\ UNCHANGED <<plan, split, env, disk, hist, job, call>>

\* api.py lines 552-553 and after: the loop is left (the CAPTCHA is taken,
\* or an exception download_judgment catches); process_case_batch returns
CaptchaPassed ==
    /\ proc.pc = "captcha"
    /\ proc' = [proc EXCEPT !.pc = "batch", !.batch_idx = @ + 1, !.app_token = 0]
    /\ hist' = Logged(Event("batch", TRUE))
    /\ UNCHANGED <<plan, split, env, disk, job, call>>

\* line 440: process_case_batch raises (insert_many fails with an error
\* other than the two it catches): main() ends
ProcessRaises ==
    /\ proc.pc = "process"
    /\ CanFail
    /\ Exit
    /\ hist' = Ended(Failed(Logged(Event("batch", FALSE))), "raised")
    /\ UNCHANGED <<plan, split, env, disk, job, call>>

\* line 364 exhausted, lines 446-451: the date index is reset and saved, the
\* next year
YearEnd ==
    /\ proc.pc = "window"
    /\ ~(proc.date_idx < Len(proc.date_ranges))
    /\ LET state == [proc.state EXCEPT !.current_date_index = 0]
       IN /\ disk' = SaveState(disk, state, proc.server_no)
          /\ hist' = Persisted(hist, state, proc.server_no)
          /\ proc' = [proc EXCEPT !.pc = "year", !.state = state,
                                  !.year_idx = @ + 1,
                                  !.date_ranges = <<>>, !.date_idx = 0]
    /\ UNCHANGED <<plan, split, env, job, call>>

\* completed set in memory only, the save_state of line 456 left out.
CompleteUnsaved ==
    /\ proc.pc = "year"
    /\ ~(proc.year_idx < Len(proc.years_list))
    /\ hist' = Ended(hist, "completed")
    /\ Exit
    /\ UNCHANGED <<plan, split, env, disk, job, call>>

\* line 345 exhausted, lines 453-467: completed is saved, main() returns
Complete ==
    /\ proc.pc = "year"
    /\ ~(proc.year_idx < Len(proc.years_list))
    /\ LET state == [proc.state EXCEPT !.completed = TRUE]
       IN /\ disk' = SaveState(disk, state, proc.server_no)
          /\ hist' = Ended(Persisted(hist, state, proc.server_no), "completed")
    /\ Exit
    /\ UNCHANGED <<plan, split, env, job, call>>

\* the process is killed, at any point of main()
Crash ==
    /\ proc.pc # "idle"
    /\ hist.crashes < MaxCrashes
    /\ Exit
    /\ hist' = Ended([hist EXCEPT !.crashes = @ + 1], "killed")
    /\ UNCHANGED <<plan, split, env, disk, job, call>>

----------------------------------------------------------------------------
(***************************************************************************)
(* SpecSearch: one search_cases call of main(), attempt by attempt.        *)
(***************************************************************************)
\* self.max_captcha_attempts
max_captcha_attempts == 20

\* retry_request(max_retries=3, ...): the decorator is defined, its use on
\* search_cases is commented out (api.py lines 330-331)
max_retries == 3

VerifyOutcomes == {"verified", "incorrect", "no image", "error"}

\* api.py lines 344-345: search_cases calls verify() unless verified
SearchCases ==
    /\ call.pc = "call"
    /\ call' = [call EXCEPT !.pc = IF call.verified THEN "post" ELSE "verify"]
    /\ UNCHANGED <<plan, split, env, disk, proc, hist, job>>

\* api.py lines 164-189: one round of the loop of verify().  A CAPTCHA that
\* is taken ends verify(); a wrong solution or no image sleeps 2 + attempt
\* seconds, an exception 3 seconds, and the loop goes on.
VerifyAttempt ==
    /\ call.pc = "verify"
    /\ call.attempt < max_captcha_attempts
    /\ \E outcome \in VerifyOutcomes :
          call' = IF outcome = "verified"
                  THEN [call EXCEPT !.pc = "post", !.verified = TRUE]
                  ELSE [call EXCEPT !.attempt = @ + 1,
                                    !.slept = @ + (IF outcome = "error"
                                                   THEN 3 ELSE 2 + call.attempt)]
    /\ UNCHANGED <<plan, split, env, disk, proc, hist, job>>

\* The loop of verify() left without raising: lines 347-349 return None.
VerifyGivesUp ==
    /\ call.pc = "verify"
    /\ ~(call.attempt < max_captcha_attempts)
    /\ call' = [call EXCEPT !.pc = "returned", !.result = "None"]
    /\ UNCHANGED <<plan, split, env, disk, proc, hist, job>>

\* api.py lines 191-193: the loop of verify() is exhausted, ValueError;
\* search_cases calls verify() outside its "try", the error leaves it
VerifyFails ==
    /\ call.pc = "verify"
    /\ ~(call.attempt < max_captcha_attempts)
    /\ call' = [call EXCEPT !.pc = "raised"]
    /\ UNCHANGED <<plan, split, env, disk, proc, hist, job>>

Replies == {"reportrow", "no reportrow", "RequestException"}

\* api.py lines 424-442: the search is posted once; a reply with reportrow
\* is returned, any other reply and any exception give None
Post ==
    /\ call.pc = "post"
    /\ \E reply \in Replies :
          call' = [call EXCEPT !.pc = "returned",
                               !.posts = @ + 1,
                               !.caught = IF reply = "RequestException" THEN reply ELSE "",
                               !.result = IF reply = "reportrow" THEN "result" ELSE "None"]
    /\ UNCHANGED <<plan, split, env, disk, proc, hist, job>>

\* main.py lines 460-467: the error of search_cases reaches the outer
\* handler of main(), which logs it; "finally" closes the MongoClient
SearchRaised ==
    /\ proc.pc = "search"
    /\ call.pc = "raised"
    /\ Exit
    /\ hist' = Ended(hist, "raised")
    /\ UNCHANGED <<plan, split, env, disk, job, call>>

----------------------------------------------------------------------------
InitPlan ==
    /\ \E year \in PlanYears, count \in PlanCounts :
          plan = [PlanIdle EXCEPT !.pc = "call", !.year = year, !.count = count]
    /\ split = SplitIdle
    /\ env = EnvIdle
    /\ disk = [s \in ServerNos |-> NoFile]
    /\ proc = ProcIdle
    /\ hist = HistIdle
    /\ call = CallIdle
    /\ job = JobIdle

NextPlan == PlanCall \/ PlanStep \/ PlanRaises

SpecPlan == InitPlan /\ [][NextPlan]_vars

InitSplit ==
    /\ plan = PlanIdle
    /\ \E data \in SplitInputs, n \in 1..MaxN :
          split = [SplitIdle EXCEPT !.pc = "loop", !.data = data, !.n = n,
                                    !.result = DivideStart(n).result]
    /\ env = EnvIdle
    /\ disk = [s \in ServerNos |-> NoFile]
    /\ proc = ProcIdle
    /\ hist = HistIdle
    /\ call = CallIdle
    /\ job = JobIdle

NextSplit == DivideStep \/ DivideReturn

SpecSplit == InitSplit /\ [][NextSplit]_vars

InitBatch ==
    /\ plan = PlanIdle
    /\ split = SplitIdle
    /\ env = EnvIdle
    /\ disk = [s \in ServerNos |-> NoFile]
    /\ proc = ProcIdle
    /\ hist = HistIdle
    /\ call = CallIdle
    /\ \E judgments \in Judgments, processor_func \in ProcessorFuncs :
          job = [JobIdle EXCEPT !.pc = "loop", !.judgments = judgments,
                                !.processor_func = processor_func]

NextBatch == BatchStep \/ BatchReturn

SpecBatch == InitBatch /\ [][NextBatch]_vars

Init ==
    /\ plan = PlanIdle
    /\ split = SplitIdle
    /\ env \in [years : TraversalData, server_count : 0..MaxServers,
                total_records : TotalRecordsSet, items : ItemsSet,
                azure_ok : BOOLEAN, vision_ok : BOOLEAN]
    /\ disk = [s \in ServerNos |-> NoFile]
    /\ proc = ProcIdle
    /\ hist = HistIdle
    /\ call = CallIdle
    /\ job = JobIdle

Next ==
    \/ StartFails \/ LoadState
    \/ PrepareYears \/ PrepareNoCredentials \/ PrepareFails \/ PrepareNoYears
    \/ YearEnter \/ WindowEnter
    \/ Probe \/ ProbeEmpty \/ ProbeRaises
    \/ WindowDone \/ PageEnter
    \/ Fetch \/ FetchEmpty \/ FetchRaises
    \/ PageDone \/ BatchEnter
    \/ ProcessBatch \/ SinkWriteFails
    \/ CaptchaAsked \/ CaptchaInvalid \/ CaptchaPassed
    \/ ProcessRaises
    \/ YearEnd \/ Complete
    \/ Crash

Spec == Init /\ [][Next]_vars

\* SpecLive: main() for one histogram and one shard, with the process always
\* taking its next step (a sequential program does not stop by itself); what
\* the portal answers is not constrained.
InitLive ==
    /\ plan = PlanIdle
    /\ split = SplitIdle
    /\ env \in [years : {(2020 :> 200) @@ (2021 :> 100)}, server_count : {1},
                total_records : {1}, items : {1},
                azure_ok : BOOLEAN, vision_ok : BOOLEAN]
    /\ disk = [s \in ServerNos |-> NoFile]
    /\ proc = ProcIdle
    /\ hist = HistIdle
    /\ call = CallIdle
    /\ job = JobIdle

\* the steps of main() from the year loop on
Traverse ==
    \/ YearEnter \/ WindowEnter
    \/ Probe \/ ProbeEmpty \/ ProbeRaises \/ WindowDone
    \/ PageEnter \/ Fetch \/ FetchEmpty \/ FetchRaises \/ PageDone
    \/ BatchEnter \/ ProcessBatch \/ SinkWriteFails
    \/ CaptchaAsked \/ CaptchaInvalid \/ CaptchaPassed \/ ProcessRaises
    \/ YearEnd \/ Complete

\* A started main() goes on: it takes a step of the traversal whenever one
\* stays possible, and it does not stay in the preparation, one of whose
\* steps is possible exactly while proc.pc = "prepare".
Running ==
    /\ WF_vars(Traverse)
    /\ []<>(proc.pc # "prepare")

SpecLive == InitLive /\ [][Next]_vars /\ Running

\* the positions of the checkpoint main() holds when it calls search_cases
SearchPositions == {<<0, 0, 0, 0>>, <<1, 2, 0, 0>>, <<0, 1, 1, 0>>}

\* main() of shard 1 is inside its "try", its checkpoint on disk, and calls
\* search_cases on a scraper that is verified or not
InitSearch ==
    /\ plan = PlanIdle
    /\ split = SplitIdle
    /\ env = EnvIdle
    /\ job = JobIdle
    /\ \E pos \in SearchPositions, verified \in BOOLEAN :
          LET state == [FreshState EXCEPT !.current_year_index = pos[1],
                                          !.current_date_index = pos[2],
                                          !.current_request = pos[3],
                                          !.current_batch = pos[4]]
              file == [exists |-> TRUE, state |-> state]
          IN /\ disk = [s \in ServerNos |-> IF s = 1 THEN file ELSE NoFile]
             /\ proc = [ProcIdle EXCEPT !.pc = "search", !.server_no = 1,
                                        !.state = state]
             /\ hist = [HistIdle EXCEPT
                          !.runs = 1,
                          !.servers = <<1>>,
                          !.starts = <<[read |-> TRUE, file |-> file]>>,
                          !.sink = <<[acquired |-> TRUE, closed |-> 0]>>]
             /\ call = [CallIdle EXCEPT !.pc = "call", !.verified = verified]

NextSearch == SearchCases \/ VerifyAttempt \/ VerifyFails \/ Post \/ SearchRaised

SpecSearch == InitSearch /\ [][NextSearch]_vars

----------------------------------------------------------------------------
(***************************************************************************)
(* divide_data: the shard maps returned (SpecSplit)                        *)
(***************************************************************************)
\* the shards whose map has the year as a key
ShardsOf(year) == {k \in 1..split.n : year \in DOMAIN split.result[k]}

RECURSIVE AssignedTo(_, _)
\* the counts the shards of K are assigned for the year, added up
AssignedTo(year, K) ==
    IF K = {} THEN 0
    ELSE LET k == CHOOSE j \in K : TRUE
         IN split.result[k][year] + AssignedTo(year, K \ {k})

\* C4 (as claimed): in the maps divide_data returns, the counts assigned to
\* each input year add up, over all shards, to that year's input count.
PartitionCompleteCounts ==
    split.pc = "done" =>
        \A year \in DOMAIN split.data :
            AssignedTo(year, ShardsOf(year)) = split.data[year]

\* C5 (as claimed): every year of the input, zero-count years included, is
\* a key of at least one of the shard maps divide_data returns.
NoYearOmitted ==
    split.pc = "done" =>
        \A year \in DOMAIN split.data : ShardsOf(year) # {}

\* C6 (as claimed): in the maps divide_data returns each year is a key of at
\* most two shard maps, and of two only when they are consecutive.
AtMostTwoConsecutiveShards ==
    split.pc = "done" =>
        \A year \in DOMAIN split.data :
            /\ Cardinality(ShardsOf(year)) <= 2
            /\ \A a, b \in ShardsOf(year) : a - b \in {-1, 0, 1}

\* the iteration just made split its year between the current part and,
\* when there is one, the next
JustSplit == split.pc \in {"loop", "remainder"} /\ split.last.exceeded

\* target_count - running total before the iteration just made, in ticks
ExactShare == TargetCount(split.data, split.n) - split.last.before

\* what the current part got of the year in the iteration just made
GotCurrent == split.result[split.last.part + 1][split.last.year]

HasNextPart == split.last.part + 1 < split.n

\* what the next part got of it
GotNext == split.result[split.last.part + 2][split.last.year]

ScenarioAResult ==
    (split.pc = "done" /\ split.data = ScenarioA /\ split.n = 2) =>
        split.result = << (2020 :> 75), (2020 :> 25) @@ (2021 :> 50) >>

\* C8: when a year's full count would exceed the target, the
\* current shard receives exactly target - running total of that year and
\* the next shard the rest of the year's count; divide_data({2020: 100,
\* 2021: 50}, 2) returns {2020: 75} and {2020: 25, 2021: 50}.
SplitRuleExact ==
    /\ ScenarioAResult
    /\ JustSplit =>
          /\ GotCurrent * Unit(split.n) = ExactShare
          /\ HasNextPart =>
                GotNext = split.data[split.last.year] - GotCurrent

----------------------------------------------------------------------------
(***************************************************************************)
(* get_all_dates_in_year: the windows returned (SpecPlan)                  *)
(***************************************************************************)
\* the day after a calendar date
DayAfter(date) ==
    IF date[3] < DaysInMonth(date[1], date[2]) THEN <<date[1], date[2], date[3] + 1>>
    ELSE IF date[2] < 12 THEN <<date[1], date[2] + 1, 1>>
    ELSE <<date[1] + 1, 1, 1>>

\* date a is not after date b
NotAfter(a, b) ==
    \/ a[1] < b[1]
    \/ a[1] = b[1] /\ a[2] < b[2]
    \/ a[1] = b[1] /\ a[2] = b[2] /\ a[3] <= b[3]

\* C9: for a count > 0 the windows get_all_dates_in_year returns are in
\* ascending order, each starts the day after the one before it ends, the
\* first starts on Jan 1 and the last ends on Dec 31 of the year.
WindowCoverage ==
    (plan.pc = "done" /\ plan.count > 0) =>
        LET w == plan.date_ranges IN
        /\ Len(w) >= 1
        /\ w[1][1] = <<plan.year, 1, 1>>
        /\ w[Len(w)][2] = <<plan.year, 12, 31>>
        /\ \A i \in 1..Len(w) : NotAfter(w[i][1], w[i][2])
        /\ \A i \in 1..(Len(w) - 1) : w[i + 1][1] = DayAfter(w[i][2])

\* C9, witness: a leap year planned in several windows, the last one cut
\* short at Dec 31
WindowCoverageWitness ==
    /\ plan.pc = "done"
    /\ plan.count > 0
    /\ IsLeap(plan.year)
    /\ Len(plan.date_ranges) >= 3
    /\ plan.add_variable > 1
    /\ DaysInYear(plan.year) % plan.add_variable # 0

\* C10: for a count with count / 269 >= 200 get_all_dates_in_year returns
\* 1-day windows only, one for each calendar day of the year.
DenseYearDailyWindows ==
    (plan.pc = "done" /\ plan.count >= DenseCount) =>
        LET w == plan.date_ranges IN
        /\ Len(w) = DaysInYear(plan.year)
        /\ w[1][1] = <<plan.year, 1, 1>>
        /\ \A i \in 1..Len(w) : w[i][1] = w[i][2]
        /\ \A i \in 1..(Len(w) - 1) : w[i + 1][1] = DayAfter(w[i][1])

\* C10, witness: a leap year with more than 200 records a sitting day,
\* planned in 366 windows
DenseYearWitness ==
    /\ plan.pc = "done"
    /\ plan.count > DenseCount
    /\ IsLeap(plan.year)
    /\ Len(plan.date_ranges) = 366

\* C11: for a count > 0 with floor(200 / (count / 269)) > 365
\* get_all_dates_in_year returns the one window (Jan 1, Dec 31) of the year;
\* year 2024 with count 25 gives ("2024-01-01", "2024-12-31").
SparseYearOneWindow ==
    /\ (plan.pc = "done" /\ plan.count > 0 /\ (200 * 269) \div plan.count > 365) =>
          plan.date_ranges = << <<<<plan.year, 1, 1>>, <<plan.year, 12, 31>>>> >>
    /\ (plan.pc = "done" /\ plan.year = 2024 /\ plan.count = 25) =>
          plan.date_ranges = << <<<<2024, 1, 1>>, <<2024, 12, 31>>>> >>

\* C11, witness: Scenario B, year 2024 with count 25, planned
SparseYearWitness ==
    /\ plan.pc = "done"
    /\ plan.year = 2024
    /\ plan.count = 25
    /\ Len(plan.date_ranges) = 1

----------------------------------------------------------------------------
(***************************************************************************)
(* main(): what the invocations of one behaviour searched and processed    *)
(* (Spec)                                                                  *)
(***************************************************************************)
\* the place of a logged batch in the traversal of its shard
UnitOf(e) == <<e.year_idx, e.date_idx, e.req_no, e.batch_idx>>

\* the batches an invocation processed, in the order it processed them
BatchUnits(run) ==
    LET mine(e) == e.kind = "batch" /\ e.ok /\ e.run = run
        picked == SelectSeq(hist.log, mine)
    IN [i \in 1..Len(picked) |-> UnitOf(picked[i])]

\* u comes before v in the order of the four nested loops
LexLess(u, v) ==
    \/ u[1] < v[1]
    \/ u[1] = v[1] /\ u[2] < v[2]
    \/ u[1] = v[1] /\ u[2] = v[2] /\ u[3] < v[3]
    \/ u[1] = v[1] /\ u[2] = v[2] /\ u[3] = v[3] /\ u[4] < v[4]

\* the batches an undisturbed invocation for a shard goes through before it
\* ends: every batch of every page of every window of the years of the shard,
\* up to its first year with a count of 0
ShardUnits(server_no) ==
    LET divided_years == DivideData(env.years, env.server_count)
        years == divided_years[server_no]
        years_list == SortedYearsDesc(DOMAIN years)
        total_requests == CeilDiv(env.total_records, DISPLAY_CASE)
        batch_count == CeilDiv(env.items, BATCH_SIZE)
        reached(year_idx) == \A j \in 1..(year_idx + 1) : years[years_list[j]] # 0
        windows(year_idx) ==
            Len(GetAllDatesInYear(years_list[year_idx + 1],
                                  years[years_list[year_idx + 1]]))
    IN UNION {
          {<<year_idx, date_idx, req_no, batch_idx>> :
              date_idx \in 0..(windows(year_idx) - 1),
              req_no \in 0..(total_requests - 1),
              batch_idx \in 0..(batch_count - 1)} :
          year_idx \in {k \in 0..(Len(years_list) - 1) : reached(k)}}

\* seq is the beginning of the undisturbed traversal of the shard: in loop
\* order, nothing of the shard left out before its last element
IsTraversalPrefix(seq, server_no) ==
    /\ \A i \in 1..Len(seq) : seq[i] \in ShardUnits(server_no)
    /\ \A i \in 1..(Len(seq) - 1) : LexLess(seq[i], seq[i + 1])
    /\ Len(seq) > 0 =>
          \A u \in ShardUnits(server_no) :
              LexLess(u, seq[Len(seq)]) => \E i \in 1..Len(seq) : seq[i] = u

\* the first invocation was killed, the second is of the same shard, and
\* every call to the portal and to the store has answered
Resumed ==
    /\ Len(hist.servers) >= 2
    /\ hist.servers[1] = hist.servers[2]
    /\ hist.ends[1] = "killed"
    /\ hist.faults = 0

\* C1: an invocation restarted from the checkpoint a killed one left goes
\* on with exactly the batches the killed one had still to process, in the
\* same order: what the two processed, one after the other, is the beginning
\* of the undisturbed traversal of the shard (the batch in hand when the
\* first was killed may open the second).
ResumeIdempotence ==
    Resumed =>
        LET first == BatchUnits(1)
            second == BatchUnits(2)
            rest == IF Len(first) > 0 /\ Len(second) > 0
                       /\ second[1] = first[Len(first)]
                    THEN Tail(second) ELSE second
        IN IsTraversalPrefix(first \o rest, hist.servers[1])

\* C2: after a kill and a restart from the checkpoint at most one batch is
\* processed a second time, and no batch of the shard that comes before a
\* processed one has been left out.
AtMostOneBatchRepeated ==
    Resumed =>
        LET first == BatchUnits(1)
            second == BatchUnits(2)
            done == {first[i] : i \in 1..Len(first)}
                       \cup {second[i] : i \in 1..Len(second)}
        IN /\ Cardinality({i \in 1..Len(second) :
                              \E j \in 1..Len(first) : first[j] = second[i]}) <= 1
           /\ \A u \in done :
                 \A v \in ShardUnits(hist.servers[1]) : LexLess(v, u) => v \in done

\* C3: once an invocation for a shard has saved completed=true and returned,
\* a later invocation for the same shard searches no window or page and
\* processes no batch.
CompletedIsTerminal ==
    \A i \in 1..Len(hist.ends) :
        hist.ends[i] = "completed" =>
            \A k \in 1..Len(hist.log) :
                hist.log[k].run > i => hist.log[k].server_no # hist.servers[i]

\* C7: no window of a year is searched by two shards of the same split.
ShardsSearchDisjointWindows ==
    \A j, k \in 1..Len(hist.log) :
        (/\ hist.log[j].kind = "probe"
         /\ hist.log[k].kind = "probe"
         /\ hist.log[j].year = hist.log[k].year
         /\ hist.log[j].window = hist.log[k].window)
        => hist.log[j].server_no = hist.log[k].server_no

----------------------------------------------------------------------------
(***************************************************************************)
(* batch_process_judgments: the list returned (SpecBatch)                  *)
(***************************************************************************)
\* C13: for every batch and every item function the call returns, without
\* letting an item's error out, a list as long as the batch and in its
\* order: result k carries an error marker and message when handling item k
\* raised, and is the item function's value for item k otherwise.
BatchIsolation ==
    /\ job.pc \in {"off", "loop", "done"}
    /\ job.pc = "done" =>
          /\ Len(job.results) = Len(job.judgments)
          /\ \A k \in 1..Len(job.judgments) :
                /\ job.results[k].of = k
                /\ IF job.judgments[k].fails
                   THEN /\ job.results[k].marker # ""
                        /\ job.results[k].message # ""
                   ELSE job.results[k] = CaseDetail(k, job.judgments[k])

----------------------------------------------------------------------------
(***************************************************************************)
(* main(): start-up, resumption, the checkpoints written and the end of an *)
(* invocation (Spec, SpecLive)                                             *)
(***************************************************************************)
\* what invocation i searched and processed, in order
EventsOf(i) ==
    LET mine(e) == e.run = i IN SelectSeq(hist.log, mine)

\* the window searches of invocation i, in order
ProbesOf(i) ==
    LET mine(e) == e.run = i /\ e.kind = "probe" IN SelectSeq(hist.log, mine)

\* invocation i loaded the checkpoint of Scenario C
FromScenarioC(i) ==
    /\ hist.starts[i].read
    /\ hist.starts[i].file.exists
    /\ PosOf(hist.starts[i].file.state) = <<1, 2, 0, 0>>

\* C12: an invocation resumed from the checkpoint {year 1, window 2, page 0,
\* batch 0} issues no request for a year before index 1 nor for a window
\* before index 2 of year index 1; its searches start at window 2 of year
\* index 1, go on window by window, and enter every later year at window 0.
ResumesFromScenarioC ==
    \A i \in 1..Len(hist.starts) :
        FromScenarioC(i) =>
            LET events == EventsOf(i)
                probes == ProbesOf(i)
            IN /\ \A k \in 1..Len(events) :
                     /\ events[k].year_idx >= 1
                     /\ events[k].year_idx = 1 => events[k].date_idx >= 2
               /\ Len(probes) > 0 =>
                     /\ probes[1].year_idx = 1
                     /\ probes[1].date_idx = 2
               /\ \A k \in 1..(Len(probes) - 1) :
                     \/ /\ probes[k + 1].year_idx = probes[k].year_idx
                        /\ probes[k + 1].date_idx = probes[k].date_idx + 1
                     \/ /\ probes[k + 1].year_idx = probes[k].year_idx + 1
                        /\ probes[k + 1].date_idx = 0

\* C12, witness: an invocation resumed from the checkpoint of Scenario C has
\* searched window 2 of year index 1 and window 0 of year index 2
ResumesFromScenarioCWitness ==
    \E i \in 1..Len(hist.starts) :
        /\ FromScenarioC(i)
        /\ Len(ProbesOf(i)) >= 2
        /\ ProbesOf(i)[1].date_idx = 2
        /\ \E k \in 1..Len(ProbesOf(i)) :
              ProbesOf(i)[k].year_idx = 2 /\ ProbesOf(i)[k].date_idx = 0

\* invocation i was given a server_count or a server_no that names no shard
InvalidShard(i) ==
    \/ env.server_count <= 0
    \/ hist.servers[i] < 1
    \/ hist.servers[i] > env.server_count

\* C14: an invocation with server_count <= 0 or server_no outside
\* 1..server_count opens no session with the portal and writes no checkpoint.
InvalidShardRejectedFirst ==
    \A i \in 1..Len(hist.servers) :
        InvalidShard(i) =>
            /\ i \notin hist.sessions
            /\ \A j \in 1..Len(hist.servers) :
                  InvalidShard(j) => ~disk[hist.servers[j]].exists

\* C15: with the Sink credentials or the Source Client credentials missing
\* no invocation loads a checkpoint and none is written.
MissingCredentialsBeforeState ==
    (~env.azure_ok \/ ~env.vision_ok) =>
        /\ \A i \in 1..Len(hist.starts) : ~hist.starts[i].read
        /\ \A s \in ServerNos : ~disk[s].exists

\* the part divide_data gives the shard of invocation i is the empty map
EmptyShard(i) ==
    /\ env.server_count >= 1
    /\ hist.servers[i] <= env.server_count
    /\ DivideData(env.years, env.server_count)[hist.servers[i]] = EmptyMap

\* C16: an invocation for a shard with the empty map searches no window or
\* page and processes no batch; it goes from the preparation straight to
\* the end, and unless it is killed or a call fails it ends with
\* completed=true in its checkpoint file.
EmptyShardCompletes ==
    \A i \in 1..Len(hist.servers) :
        EmptyShard(i) =>
            /\ Len(EventsOf(i)) = 0
            /\ (i = hist.runs /\ proc.pc # "idle") => proc.pc \in {"prepare", "year"}
            /\ (/\ i <= Len(hist.ends)
                /\ hist.ends[i] # "killed"
                /\ hist.faults = 0
                /\ env.azure_ok
                /\ env.vision_ok)
               => /\ hist.ends[i] = "completed"
                  /\ disk[hist.servers[i]].exists
                  /\ disk[hist.servers[i]].state.completed

\* C16, witness: an invocation for a shard with the empty map has ended,
\* completed
EmptyShardWitness ==
    \E i \in 1..Len(hist.ends) :
        /\ EmptyShard(i)
        /\ hist.ends[i] = "completed"
        /\ hist.faults = 0

\* C17: every invocation eventually halts.
RunHalts == (proc.pc # "idle") ~> (proc.pc = "idle")

\* C18: the MongoClient an invocation acquired is closed once when the
\* invocation completes, returns early or ends on an exception, and not
\* before.
SinkReleasedOnExit ==
    \A i \in 1..Len(hist.sink) :
        hist.sink[i].acquired =>
            /\ (i <= Len(hist.ends)
                /\ hist.ends[i] \in {"completed", "returned", "no years", "raised"})
               => hist.sink[i].closed = 1
            /\ i > Len(hist.ends) => hist.sink[i].closed = 0

\* C18, witness: an invocation that had searched a window ended on an
\* exception, another returned early, and both closed their MongoClient
SinkReleasedWitness ==
    /\ \E i \in 1..Len(hist.ends) :
          /\ hist.sink[i].acquired
          /\ hist.ends[i] = "raised"
          /\ Len(EventsOf(i)) > 0
          /\ hist.sink[i].closed = 1
    /\ \E i \in 1..Len(hist.ends) :
          /\ hist.sink[i].acquired
          /\ hist.ends[i] = "returned"
          /\ hist.sink[i].closed = 1

\* C19: the positions one invocation writes with save_state never decrease
\* in lexicographic order.
CheckpointNeverDecreases ==
    (/\ hist.prev.run > 0
     /\ hist.prev.run = hist.last.run
     /\ hist.prev.server_no = hist.last.server_no)
    => ~LexLess(hist.last.pos, hist.prev.pos)

\* C20: a checkpoint written with a greater year index than the one written
\* before it has window, page and batch index 0; one written with the same
\* year index and a greater window index has page and batch index 0.
ChildIndicesReset ==
    (hist.prev.run > 0 /\ hist.prev.server_no = hist.last.server_no) =>
        /\ hist.last.pos[1] > hist.prev.pos[1] =>
              /\ hist.last.pos[2] = 0
              /\ hist.last.pos[3] = 0
              /\ hist.last.pos[4] = 0
        /\ (hist.last.pos[1] = hist.prev.pos[1] /\ hist.last.pos[2] > hist.prev.pos[2]) =>
              /\ hist.last.pos[3] = 0
              /\ hist.last.pos[4] = 0

----------------------------------------------------------------------------
(***************************************************************************)
(* main(): what is on disk at a request, and what a failed request does    *)
(* to the traversal (Spec)                                                 *)
(***************************************************************************)
\* the unit the loops of main() are in
LoopPos ==
    <<proc.year_idx, proc.date_idx,
      IF proc.pc = "probe" THEN 0 ELSE proc.req_no,
      IF proc.pc \in {"process", "captcha"} THEN proc.batch_idx ELSE 0>>

\* C21: whenever the traversal is about to search (the probe of a window,
\* the fetch of a page) or to call process_case_batch, the checkpoint file
\* of the shard exists and holds the year, window, page and batch index of
\* the state in memory, which are those of the unit the loops are in.
CheckpointFlushed ==
    proc.pc \in {"probe", "fetch", "process", "captcha"} =>
        /\ disk[proc.server_no].exists
        /\ PosOf(disk[proc.server_no].state) = PosOf(proc.state)
        /\ PosOf(proc.state) = LoopPos

\* C21, witness: process_case_batch is about to be called for the second
\* batch of the second page of a window, the checkpoint holds that position
CheckpointFlushedWitness ==
    /\ proc.pc = "process"
    /\ proc.req_no = 1
    /\ proc.batch_idx = 1
    /\ PosOf(disk[proc.server_no].state) = LoopPos

\* C22: a failure at the probe of a window (the Source Client cannot be
\* built, the search fails, iTotalRecords cannot be read) only skips that
\* window: main() goes on with the next window of the same year.
ProbeFailureSkipsWindow ==
    [][(proc.pc = "probe" /\ hist'.faults > hist.faults) =>
          /\ proc'.pc = "window"
          /\ proc'.year_idx = proc.year_idx
          /\ proc'.date_idx = proc.date_idx + 1
          /\ Len(hist'.ends) = Len(hist.ends)]_vars

\* C23: an empty or failed fetch of a page (no reply, no reportrow, the item
\* list missing or null) only skips that page: main() goes on with the next
\* page of the same window.
FetchFailureSkipsPage ==
    [][(proc.pc = "fetch" /\ hist'.faults > hist.faults) =>
          /\ proc'.pc = "page"
          /\ proc'.year_idx = proc.year_idx
          /\ proc'.date_idx = proc.date_idx
          /\ proc'.req_no = proc.req_no + 1
          /\ Len(hist'.ends) = Len(hist.ends)]_vars

----------------------------------------------------------------------------
(***************************************************************************)
(* search_cases: retries and verification (SpecSearch)                     *)
(***************************************************************************)
\* C24: a search of the traversal that fails with a network error is posted
\* again, max_retries further times, before the failure reaches main(): a
\* call that ends after a RequestException has posted 1 + max_retries times
\* and has raised the last error.
SearchRetriedBeforeFailure ==
    (call.pc \in {"returned", "raised"} /\ call.caught = "RequestException") =>
        /\ call.posts = 1 + max_retries
        /\ call.pc = "raised"

\* C25: verify() makes at most max_captcha_attempts attempts, search_cases
\* raises exactly when all of them failed and returns only when verified;
\* the error ends main() through its outer handler ("raised", the
\* MongoClient closed) with the checkpoint file as it was: same indices,
\* completed not set.
VerificationFailureIsFatal ==
    /\ call.attempt <= max_captcha_attempts
    /\ call.pc = "raised" => (call.attempt = max_captcha_attempts /\ ~call.verified)
    /\ call.pc = "returned" => (call.verified /\ call.posts = 1)
    /\ (call.attempt = max_captcha_attempts /\ ~call.verified) =>
          call.pc \in {"verify", "raised"}
    /\ proc.pc = "idle" =>
          /\ call.pc = "raised"
          /\ hist.ends = <<"raised">>
          /\ hist.sink[1].closed = 1
          /\ disk[1] = hist.starts[1].file
          /\ ~disk[1].state.completed

\* C25, witness: verify() failed max_captcha_attempts times, main() has
\* ended on the error with a checkpoint at year 1, window 2 on disk
VerificationFailureWitness ==
    /\ proc.pc = "idle"
    /\ call.attempt = max_captcha_attempts
    /\ hist.ends = <<"raised">>
    /\ PosOf(disk[1].state) = <<1, 2, 0, 0>>

----------------------------------------------------------------------------
(***************************************************************************)
(* main(): a failed write to the Sink; what a completed shard has covered  *)
(* (Spec)                                                                  *)
(***************************************************************************)
\* the step has logged that insert_many failed for the batch in hand
WriteFailedNow ==
    /\ proc.pc = "process"
    /\ Len(hist'.log) > Len(hist.log)
    /\ hist'.log[Len(hist'.log)].kind = "write"

\* C26: when the write of a batch to the Sink fails, process_case_batch
\* returns: the write is tried once, main() does not end, nothing is saved,
\* and the traversal stands at the next batch exactly as after a write that
\* succeeded.
SinkFailureAbsorbed ==
    [][WriteFailedNow =>
          /\ proc' = [proc EXCEPT !.pc = "batch", !.batch_idx = @ + 1]
          /\ Len(hist'.log) = Len(hist.log) + 2
          /\ hist'.ends = hist.ends
          /\ disk' = disk]_vars

\* C26, witness: after a failed write of batch 0 of a page the same
\* invocation has processed batch 1 of that page
SinkFailureWitness ==
    \E j, k \in 1..Len(hist.log) :
        /\ j < k
        /\ hist.log[j].kind = "write"
        /\ hist.log[k].kind = "batch"
        /\ hist.log[k].run = hist.log[j].run
        /\ hist.log[k].req_no = hist.log[j].req_no
        /\ hist.log[k].batch_idx = 1

\* the windows of the years of a shard, as <<year index, window index>>
ShardWindows(server_no) ==
    LET divided_years == DivideData(env.years, env.server_count)
        years == divided_years[server_no]
        years_list == SortedYearsDesc(DOMAIN years)
        windows(year_idx) ==
            LET year == years_list[year_idx + 1]
            IN IF years[year] = 0 THEN 0
               ELSE Len(GetAllDatesInYear(year, years[year]))
    IN UNION {{<<year_idx, date_idx>> : date_idx \in 0..(windows(year_idx) - 1)} :
                 year_idx \in 0..(Len(years_list) - 1)}

\* the checkpoint file of the shard says completed
CompletedOnDisk(server_no) ==
    /\ env.server_count >= 1
    /\ server_no <= env.server_count
    /\ disk[server_no].exists
    /\ disk[server_no].state.completed

\* e records a request for the window, the page or the batch of shard
\* server_no
EventAt(e, kind, server_no, window, req_no, batch_idx) ==
    /\ e.kind = kind
    /\ e.server_no = server_no
    /\ <<e.year_idx, e.date_idx>> = window
    /\ e.req_no = req_no
    /\ e.batch_idx = batch_idx

LogEvents == {hist.log[k] : k \in 1..Len(hist.log)}

----------------------------------------------------------------------------
(***************************************************************************)
(* divide_data: the counts a shard is given (SpecSplit)                    *)
(***************************************************************************)
\* C27: for an input with counts >= 0 and n >= 1, every count in every map
\* divide_data returns is >= 0.
ShardCountsNonNegative ==
    split.pc = "done" =>
        \A k \in 1..split.n :
            \A year \in DOMAIN split.result[k] : split.result[k][year] >= 0

\* C29: for an input whose counts are all >= 1, no map divide_data returns
\* gives a shard a count of 0 for a year (a count of 0 makes date_gap divide
\* by zero when main() plans the year).
ShardCountsAtLeastOne ==
    (split.pc = "done" /\ \A year \in DOMAIN split.data : split.data[year] >= 1) =>
        \A k \in 1..split.n :
            \A year \in DOMAIN split.result[k] : split.result[k][year] # 0

----------------------------------------------------------------------------
(***************************************************************************)
(* get_all_dates_in_year: the windows of a year of middle density          *)
(* (SpecPlan)                                                              *)
(***************************************************************************)
RECURSIVE DaysBefore(_, _)
\* the days of the year before the first of the month
DaysBefore(year, month) ==
    IF month = 1 THEN 0
    ELSE DaysInMonth(year, month - 1) + DaysBefore(year, month - 1)

\* the place of a date in its year, Jan 1 being 1
DayOfYear(date) == DaysBefore(date[1], date[2]) + date[3]

\* the days of a window, both ends counted
SpanOf(window) == DayOfYear(window[2]) - DayOfYear(window[1]) + 1

\* floor(200 / (count / 269)) for a count > 0
MidGap == (200 * 269) \div plan.count

\* C28: for a count > 0 with 1 <= floor(200 / (count / 269)) <= 365
\* get_all_dates_in_year returns ceil(daysInYear / gap) windows of the year,
\* one after the other from Jan 1; each spans gap days but the last, which
\* ends on Dec 31 and spans what is left of the year.
MidDensityWindows ==
    (plan.pc = "done" /\ plan.count > 0 /\ MidGap >= 1 /\ MidGap <= 365) =>
        LET w == plan.date_ranges
            n == CeilDiv(DaysInYear(plan.year), MidGap)
        IN /\ Len(w) = n
           /\ \A i \in 1..Len(w) :
                 /\ w[i][1][1] = plan.year
                 /\ w[i][2][1] = plan.year
                 /\ DayOfYear(w[i][1]) = (i - 1) * MidGap + 1
           /\ \A i \in 1..(Len(w) - 1) : SpanOf(w[i]) = MidGap
           /\ w[n][2] = <<plan.year, 12, 31>>
           /\ SpanOf(w[n]) = DaysInYear(plan.year) - (n - 1) * MidGap

\* C28, witness: year 2021 planned with a gap of 30 days: 13 windows, the
\* last one of 5 days
MidDensityWitness ==
    /\ plan.pc = "done"
    /\ plan.year = 2021
    /\ plan.count > 0
    /\ MidGap = 30
    /\ Len(plan.date_ranges) = 13
    /\ SpanOf(plan.date_ranges[13]) = 5

====
